---- MODULE Spec2Model ----
(***************************************************************************)
(* videovault (src/app.py): a Flask video gallery.  Metadata lives in one  *)
(* JSON document (DATA_FILE) that every handler loads whole, changes in    *)
(* memory and rewrites whole; video files live in UPLOAD_FOLDER and        *)
(* thumbnails in THUMB_FOLDER.                                             *)
(*                                                                         *)
(* Text is modelled as a sequence of tokens (a token is a run of           *)
(* characters): "clip_1.mp4" is <<"clip", "_1", ".mp4">>.  Concatenation,  *)
(* splitext, rsplit, strip, lower and the substring test work on these     *)
(* sequences the way the Python operations work on characters.             *)
(*                                                                         *)
(* Each handler is cut at its accesses to shared state (the JSON document  *)
(* and the two directories); the code between two accesses only touches    *)
(* the request's locals and is part of the step that precedes it.          *)
(***************************************************************************)
EXTENDS Integers, Sequences, FiniteSets, TLC

\* ------------------------------------------------------------------ bounds
MaxSerial   == 4    \* requests sent to the server that handles one at a time
MaxThreaded == 3    \* requests sent to the server that handles them on threads

\* ------------------------------------------------------- program constants
MAX_FILE_SIZE_MB == 500

ALLOWED_EXTENSIONS == {"mp4", "webm", "mov"}

DefaultThumb == <<"default", ".jpg">>

\* worker threads of the server
Procs == {1, 2}

\* ------------------------------------------------------------- text model
\* tokens that are an extension: a dot followed by the extension's letters
ExtOf(tok) ==
    CASE tok = ".mp4"  -> <<"mp4">>
      [] tok = ".WEBM" -> <<"WEBM">>
      [] tok = ".webm" -> <<"webm">>
      [] tok = ".mov"  -> <<"mov">>
      [] tok = ".txt"  -> <<"txt">>
      [] tok = ".jpg"  -> <<"jpg">>
      [] OTHER         -> <<>>

HasDot(tok) == ExtOf(tok) # <<>>

\* str.lower() on one token
LowerTok(tok) ==
    CASE tok = "Beach" -> "beach"
      [] tok = "BEACH" -> "beach"
      [] tok = "Day"   -> "day"
      [] tok = "Sunny" -> "sunny"
      [] tok = "WEBM"  -> "webm"
      [] tok = ".WEBM" -> ".webm"
      [] OTHER         -> tok

Lower(s) == [i \in DOMAIN s |-> LowerTok(s[i])]

Front(s) == SubSeq(s, 1, Len(s) - 1)

Last(s) == s[Len(s)]

\* `a in b` on strings: a is a contiguous part of b
Contains(b, a) == \E i \in 0..(Len(b) - Len(a)) : SubSeq(b, i + 1, i + Len(a)) = a

RECURSIVE LStrip(_)
LStrip(s) == IF s # <<>> /\ Head(s) = " " THEN LStrip(Tail(s)) ELSE s

RECURSIVE RStrip(_)
RStrip(s) == IF s # <<>> /\ Last(s) = " " THEN RStrip(Front(s)) ELSE s

\* str.strip()
Strip(s) == RStrip(LStrip(s))

\* f"_{counter}"
CounterTok(n) ==
    CASE n = 1 -> "_1" [] n = 2 -> "_2" [] n = 3 -> "_3" [] n = 4 -> "_4"
      [] n = 5 -> "_5" [] n = 6 -> "_6" [] n = 7 -> "_7" [] OTHER -> "_8"

\* last index of a token that holds a dot, 0 when there is none
RECURSIVE LastDot(_)
LastDot(s) == IF s = <<>> THEN 0 ELSE IF HasDot(Last(s)) THEN Len(s) ELSE LastDot(Front(s))

\* filename.rsplit(".", 1)[1].lower() in ALLOWED_EXTENSIONS, "." in filename
allowed_file(name) ==
    /\ LastDot(name) # 0
    /\ LastDot(name) = Len(name)
    /\ \E e \in ALLOWED_EXTENSIONS : Lower(ExtOf(Last(name))) = <<e>>

\* werkzeug's secure_filename: path separators and dot segments are dropped,
\* whitespace becomes an underscore
RECURSIVE secure_filename(_)
secure_filename(name) ==
    IF name = <<>> THEN <<>>
    ELSE IF Head(name) \in {"../", "/"} THEN secure_filename(Tail(name))
    ELSE IF Head(name) = " " THEN <<"_">> \o secure_filename(Tail(name))
    ELSE <<Head(name)>> \o secure_filename(Tail(name))

\* os.path.splitext: the extension is the last dotted token unless it leads
splitext_base(name) == IF Len(name) > 1 /\ HasDot(Last(name)) THEN Front(name) ELSE name

splitext_ext(name) == IF Len(name) > 1 /\ HasDot(Last(name)) THEN <<Last(name)>> ELSE <<>>

\* filename.rsplit(".", 1)[0] + ".jpg"
ThumbNameOf(name) ==
    (IF LastDot(name) = 0 THEN name ELSE SubSeq(name, 1, LastDot(name) - 1)) \o <<".jpg">>

\* size_mb = file.tell() / (1024 * 1024); size_mb > MAX_FILE_SIZE_MB
TooLarge(bytes) == bytes > MAX_FILE_SIZE_MB * 1024 * 1024

\* ------------------------------------------------------------------ state
VARIABLES
    store,          \* contents of DATA_FILE: the ordered list of records
    uploads,        \* names of the files in UPLOAD_FOLDER
    thumbs,         \* names of the files in THUMB_FOLDER
    now,            \* last value read from the clock
    serial,         \* TRUE: the server handles one request at a time
    begun,          \* requests the server has taken so far
    pc,             \* position of each worker in its handler
    op,             \* handler each worker runs
    filename,       \* local `filename` (URL parameter or resolved upload name)
    base,           \* upload: local `base`
    ext,            \* upload: local `ext`
    counter,        \* upload: local `counter`
    thumb_name,     \* upload: local `thumb_name`
    videos,         \* local `videos` (delete: `new_list`)
    deleted_video,  \* delete: local `deleted_video`, <<>> for None
    loaded,         \* history: what load_videos() returned to the request
    response,       \* body or status the handler returned
    page,           \* what index / playlist_page hand to render_template
    writes          \* history: the latest save_videos call, when heart made it

vars == <<store, uploads, thumbs, now, serial, begun, pc, op, filename, base, ext, counter,
          thumb_name, videos, deleted_video, loaded, response, page, writes>>

shared == <<store, uploads, thumbs>>

NoPage == [videos |-> <<>>, playlists |-> {}, search |-> <<>>, sort |-> ""]

\* ----------------------------------------------------------------- inputs
\* size in bytes of a stream at the ceiling
Ceiling == MAX_FILE_SIZE_MB * 1024 * 1024

\* the POST /upload requests clients send: file.filename, the size of the
\* stream, whether cv2 can decode a first frame from it, and the form fields
UploadRequests ==
    { [name |-> <<"../", "clip", ".mp4">>, bytes |-> Ceiling, decodable |-> TRUE,
       title |-> <<" ">>, description |-> <<>>, playlist |-> <<>>],
      [name |-> <<"clip", ".mp4">>, bytes |-> 0, decodable |-> FALSE,
       title |-> <<>>, description |-> <<>>, playlist |-> <<>>],
      [name |-> <<"clip", ".mp4">>, bytes |-> Ceiling + 1, decodable |-> TRUE,
       title |-> <<>>, description |-> <<>>, playlist |-> <<>>],
      [name |-> <<"clip", ".WEBM">>, bytes |-> 1, decodable |-> TRUE,
       title |-> <<"Beach", "Day">>, description |-> <<"Sunny">>,
       playlist |-> <<"trips", " ">>],
      [name |-> <<"clip", ".txt">>, bytes |-> 1, decodable |-> FALSE,
       title |-> <<>>, description |-> <<>>, playlist |-> <<>>] }

\* the requests a worker can be handling, given its locals.  The handler reads
\* the size, the stream and the form fields where it needs them; a step takes
\* them from any request with the worker's sanitized name, so every
\* combination of size, decodability and form fields occurs.
RequestsOf(b, e) == { r \in UploadRequests : allowed_file(r.name) /\ secure_filename(r.name) = b \o e }

\* <filename> of /heart, /view and /delete: a name on disk or in the store,
\* or a name nobody uploaded
NamesInStore(vs) == { vs[i].filename : i \in DOMAIN vs }

Targets == NamesInStore(store) \cup uploads \cup { <<"ghost", ".mp4">> }

\* the query strings of GET /: search and sort ("random" is no sort key)
Queries ==
    { <<s, k>> : s \in {<<>>}, k \in {"newest", "oldest", "views", "hearts", "random"} }
        \cup { <<s, k>> : s \in {<<"BEACH">>}, k \in {"oldest", "random"} }

PlaylistNames == { <<"trips">> }

\* ------------------------------------------------------- record functions
\* index of the first record with this filename, 0 when there is none
FirstMatch(vs, f) ==
    IF \E i \in DOMAIN vs : vs[i].filename = f
    THEN CHOOSE i \in DOMAIN vs :
            /\ vs[i].filename = f
            /\ \A j \in DOMAIN vs : vs[j].filename = f => i <= j
    ELSE 0

\* variant: the counter is set to 1 instead of raised by 1
IncrementSet(vs, f, field) ==
    LET i == FirstMatch(vs, f)
    IN  IF i = 0 THEN vs ELSE [vs EXCEPT ![i] = [@ EXCEPT ![field] = 1]]

\* variant: the record is rebuilt with the other counter at 0
IncrementOnly(vs, f, field) ==
    LET i == FirstMatch(vs, f)
    IN  IF i = 0 THEN vs
        ELSE [vs EXCEPT ![i] = [@ EXCEPT !.hearts = IF field = "hearts" THEN @ + 1 ELSE 0,
                                         !.views  = IF field = "views" THEN @ + 1 ELSE 0]]

\* for v in videos: if v["filename"] == filename: v[field] += 1; break
Increment(vs, f, field) ==
    LET i == FirstMatch(vs, f)
    IN  IF i = 0 THEN vs ELSE [vs EXCEPT ![i] = [@ EXCEPT ![field] = @ + 1]]

\* delete's loop: new_list keeps every record with another filename
NewList(vs, f) == SelectSeq(vs, LAMBDA v : v.filename # f)

\* delete's loop: deleted_video is the last record with this filename
DeletedVideo(vs, f) ==
    LET m == SelectSeq(vs, LAMBDA v : v.filename = f)
    IN  IF m = <<>> THEN <<>> ELSE <<Last(m)>>

\* the record upload appends
NewRecord(fname, form, thumb, t) ==
    [ filename    |-> fname,
      title       |-> IF Strip(form.title) = <<>> THEN fname ELSE Strip(form.title),
      description |-> Strip(form.description),
      playlist    |-> Strip(form.playlist),
      thumbnail   |-> thumb,
      hearts      |-> 0,
      views       |-> 0,
      uploaded_at |-> t ]

\* ------------------------------------------------------------- the history
\* the latest save when a heart request made it: the filename it was for, the
\* list the request had loaded, and whether the file no longer held that list
\* when the save replaced it; <<>> after the save of another handler
LogWrite(p, handler) ==
    IF handler = "heart"
    THEN << [filename |-> filename[p], loaded |-> loaded[p], stale |-> store # loaded[p]] >>
    ELSE <<>>

\* datetime.now(): the clock has moved on since it was last read
Clock == now + 1

\* ------------------------------------------------------------- scheduling
\* a worker takes a new request; a serial server waits for the previous one
Free(p) == pc[p] \in {"idle", "done"}

\* a request goes to the first free worker; a serial server takes it once
\* the previous one has returned
CanBegin(p) ==
    /\ Free(p)
    /\ \A q \in Procs : q < p => ~Free(q)
    /\ serial => \A q \in Procs : Free(q)

\* the workload: the clients send a bounded number of requests
Take ==
    /\ begun < (IF serial THEN MaxSerial ELSE MaxThreaded)
    /\ begun' = begun + 1

\* worker p returns from its handler: the response stays, and so do the
\* filename it was for and the record it deleted; the other locals go
Leave(p, body) ==
    /\ pc' = [pc EXCEPT ![p] = "done"]
    /\ response' = [response EXCEPT ![p] = body]
    /\ base' = [base EXCEPT ![p] = <<>>]
    /\ ext' = [ext EXCEPT ![p] = <<>>]
    /\ counter' = [counter EXCEPT ![p] = 0]
    /\ thumb_name' = [thumb_name EXCEPT ![p] = <<>>]
    /\ videos' = [videos EXCEPT ![p] = <<>>]
    /\ loaded' = [loaded EXCEPT ![p] = <<>>]

\* worker p enters a handler: the locals of its previous request are gone
Enter(p, handler, f, vs, dv, ld) ==
    /\ CanBegin(p)
    /\ Take
    /\ op' = [op EXCEPT ![p] = handler]
    /\ filename' = [filename EXCEPT ![p] = f]
    /\ videos' = [videos EXCEPT ![p] = vs]
    /\ deleted_video' = [deleted_video EXCEPT ![p] = dv]
    /\ loaded' = [loaded EXCEPT ![p] = ld]
    /\ thumb_name' = [thumb_name EXCEPT ![p] = <<>>]

\* ------------------------------------------------------------ GalleryQuery
\* clock ticks in one minute: "%b %d, %Y - %I:%M %p" drops what is below it
TicksPerMinute == 2

\* pretty_date: the timestamp down to the minute
pretty_date(iso) == iso \div TicksPerMinute

\* v["pretty_date"] = pretty_date(v["uploaded_at"])
WithPrettyDate(v) ==
    [k \in DOMAIN v \cup {"pretty_date"} |->
        IF k = "pretty_date" THEN pretty_date(v.uploaded_at) ELSE v[k]]

\* the search filter of index
Matches(v, search) ==
    \/ Contains(Lower(v.title), search)
    \/ Contains(Lower(v.description), search)
    \/ Contains(Lower(v.filename), search)

\* list.sort(key=..., reverse=desc): a stable sort, so records with equal keys
\* keep their order, also with reverse=True.  Record i comes before record j
\* when its key comes first, or the keys are equal and i < j.
SortBy(s, key, desc) ==
    LET Before(i, j) ==
            \/ IF desc THEN s[i][key] > s[j][key] ELSE s[i][key] < s[j][key]
            \/ s[i][key] = s[j][key] /\ i < j
        Rank(i) == 1 + Cardinality({ j \in DOMAIN s : Before(j, i) })
    IN  [k \in 1..Len(s) |-> s[CHOOSE i \in DOMAIN s : Rank(i) = k]]

\* sorted(list(set(...))) of the non-empty playlists: the set stands for its sorted list
PlaylistsOf(vs) == { vs[i].playlist : i \in { j \in DOMAIN vs : vs[j].playlist # <<>> } }

\* variant: sort=oldest sorts with reverse=True like the other keys
RenderIndexReversed(vs, rawsearch, sort) ==
    LET search   == Lower(rawsearch)
        dated    == [i \in DOMAIN vs |-> WithPrettyDate(vs[i])]
        filtered == IF search # <<>> THEN SelectSeq(dated, LAMBDA v : Matches(v, search))
                    ELSE dated
        sorted   == CASE sort = "newest" -> SortBy(filtered, "uploaded_at", TRUE)
                      [] sort = "oldest" -> SortBy(filtered, "uploaded_at", TRUE)
                      [] sort = "views"  -> SortBy(filtered, "views", TRUE)
                      [] sort = "hearts" -> SortBy(filtered, "hearts", TRUE)
                      [] OTHER           -> filtered
    IN  [videos |-> sorted, playlists |-> PlaylistsOf(sorted), search |-> search, sort |-> sort]

\* what index() hands to the template for this store and these parameters
RenderIndex(vs, rawsearch, sort) ==
    LET search   == Lower(rawsearch)
        dated    == [i \in DOMAIN vs |-> WithPrettyDate(vs[i])]
        filtered == IF search # <<>> THEN SelectSeq(dated, LAMBDA v : Matches(v, search))
                    ELSE dated
        sorted   == CASE sort = "newest" -> SortBy(filtered, "uploaded_at", TRUE)
                      [] sort = "oldest" -> SortBy(filtered, "uploaded_at", FALSE)
                      [] sort = "views"  -> SortBy(filtered, "views", TRUE)
                      [] sort = "hearts" -> SortBy(filtered, "hearts", TRUE)
                      [] OTHER           -> filtered
    IN  [videos |-> sorted, playlists |-> PlaylistsOf(sorted), search |-> search, sort |-> sort]

\* what playlist_page() hands to the template
RenderPlaylist(vs, playlist_name) ==
    LET filtered == SelectSeq(vs, LAMBDA v : v.playlist = playlist_name)
        dated    == [i \in DOMAIN filtered |-> WithPrettyDate(filtered[i])]
    IN  [videos |-> SortBy(dated, "uploaded_at", TRUE), playlists |-> {},
         search |-> playlist_name, sort |-> "newest"]

\* ------------------------------------------------------------------- Init
Init ==
    /\ store = <<>>
    /\ uploads = {}
    /\ thumbs = {}
    /\ now = 0
    /\ serial \in BOOLEAN
    /\ begun = 0
    /\ pc = [p \in Procs |-> "idle"]
    /\ op = [p \in Procs |-> ""]
    /\ filename = [p \in Procs |-> <<>>]
    /\ base = [p \in Procs |-> <<>>]
    /\ ext = [p \in Procs |-> <<>>]
    /\ counter = [p \in Procs |-> 0]
    /\ thumb_name = [p \in Procs |-> <<>>]
    /\ videos = [p \in Procs |-> <<>>]
    /\ deleted_video = [p \in Procs |-> <<>>]
    /\ loaded = [p \in Procs |-> <<>>]
    /\ response = [p \in Procs |-> ""]
    /\ page = [p \in Procs |-> NoPage]
    /\ writes = <<>>

InitSerial == Init /\ serial = TRUE

InitThreaded == Init /\ serial = FALSE

\* ------------------------------------------------------------ index (58-90)
Index(p) ==
    /\ Enter(p, "index", <<>>, <<>>, <<>>, <<>>)
    /\ \E q \in Queries :
          page' = [page EXCEPT ![p] = RenderIndex(store, q[1], q[2])]
    /\ response' = [response EXCEPT ![p] = "index.html"]
    /\ pc' = [pc EXCEPT ![p] = "done"]
    /\ base' = [base EXCEPT ![p] = <<>>]
    /\ ext' = [ext EXCEPT ![p] = <<>>]
    /\ counter' = [counter EXCEPT ![p] = 0]
    /\ UNCHANGED <<store, uploads, thumbs, now, serial, writes>>

\* --------------------------------------------------- playlist_page (93-104)
PlaylistPage(p) ==
    /\ Enter(p, "playlist", <<>>, <<>>, <<>>, <<>>)
    /\ \E playlist_name \in PlaylistNames :
          page' = [page EXCEPT ![p] = RenderPlaylist(store, playlist_name)]
    /\ response' = [response EXCEPT ![p] = "playlist.html"]
    /\ pc' = [pc EXCEPT ![p] = "done"]
    /\ base' = [base EXCEPT ![p] = <<>>]
    /\ ext' = [ext EXCEPT ![p] = <<>>]
    /\ counter' = [counter EXCEPT ![p] = 0]
    /\ UNCHANGED <<store, uploads, thumbs, now, serial, writes>>

\* ------------------------------------------------------- upload (107-171)
\* lines 110-122: the allow-list test, secure_filename and splitext
UploadBegin(p) ==
    /\ \E r \in UploadRequests :
          IF allowed_file(r.name)
          THEN /\ Enter(p, "upload", secure_filename(r.name), <<>>, <<>>, <<>>)
               /\ base' = [base EXCEPT ![p] = splitext_base(secure_filename(r.name))]
               /\ ext' = [ext EXCEPT ![p] = splitext_ext(secure_filename(r.name))]
               /\ counter' = [counter EXCEPT ![p] = 1]
               /\ response' = [response EXCEPT ![p] = ""]
               /\ pc' = [pc EXCEPT ![p] = "resolve"]
          ELSE /\ Enter(p, "upload", <<>>, <<>>, <<>>, <<>>)
               /\ base' = [base EXCEPT ![p] = <<>>]
               /\ ext' = [ext EXCEPT ![p] = <<>>]
               /\ counter' = [counter EXCEPT ![p] = 0]
               /\ response' = [response EXCEPT ![p] = "Invalid file type."]
               /\ pc' = [pc EXCEPT ![p] = "done"]
    /\ page' = [page EXCEPT ![p] = NoPage]
    /\ UNCHANGED <<store, uploads, thumbs, now, serial, writes>>

\* variant: the existence test runs once, the renamed file is not tested again
UploadResolveOnce(p) ==
    /\ pc[p] = "resolve"
    /\ IF filename[p] \in uploads
       THEN /\ filename' = [filename EXCEPT ![p] = base[p] \o <<CounterTok(counter[p])>> \o ext[p]]
            /\ counter' = [counter EXCEPT ![p] = @ + 1]
       ELSE UNCHANGED <<filename, counter>>
    /\ pc' = [pc EXCEPT ![p] = "size"]
    /\ UNCHANGED <<store, uploads, thumbs, now, serial, begun, op, base, ext, thumb_name,
                   videos, deleted_video, loaded, response, page, writes>>

\* variant: the counter is raised before the name is built from it
UploadResolveSkip(p) ==
    /\ pc[p] = "resolve"
    /\ IF filename[p] \in uploads
       THEN /\ filename' = [filename EXCEPT ![p] =
                                base[p] \o <<CounterTok(counter[p] + 1)>> \o ext[p]]
            /\ counter' = [counter EXCEPT ![p] = @ + 1]
            /\ UNCHANGED pc
       ELSE /\ pc' = [pc EXCEPT ![p] = "size"]
            /\ UNCHANGED <<filename, counter>>
    /\ UNCHANGED <<store, uploads, thumbs, now, serial, begun, op, base, ext, thumb_name,
                   videos, deleted_video, loaded, response, page, writes>>

\* lines 123-127: one test of the while loop
UploadResolve(p) ==
    /\ pc[p] = "resolve"
    /\ IF filename[p] \in uploads
       THEN /\ filename' = [filename EXCEPT ![p] = base[p] \o <<CounterTok(counter[p])>> \o ext[p]]
            /\ counter' = [counter EXCEPT ![p] = @ + 1]
            /\ UNCHANGED pc
       ELSE /\ pc' = [pc EXCEPT ![p] = "size"]
            /\ UNCHANGED <<filename, counter>>
    /\ UNCHANGED <<store, uploads, thumbs, now, serial, begun, op, base, ext, thumb_name,
                   videos, deleted_video, loaded, response, page, writes>>

\* variant: file.save runs before the size of the stream is tested
UploadSizeAfterSave(p) ==
    /\ pc[p] = "size"
    /\ uploads' = uploads \cup {filename[p]}
    /\ \E r \in RequestsOf(base[p], ext[p]) :
          IF TooLarge(r.bytes)
          THEN Leave(p, "File too large. Max 500MB.")
          ELSE /\ pc' = [pc EXCEPT ![p] = "save_file"]
               /\ UNCHANGED <<response, base, ext, counter, thumb_name, videos, loaded>>
    /\ UNCHANGED <<store, thumbs, now, serial, begun, op, filename, deleted_video, page, writes>>

\* lines 130-135: the size of the stream against the ceiling
UploadSize(p) ==
    /\ pc[p] = "size"
    /\ \E r \in RequestsOf(base[p], ext[p]) :
          IF TooLarge(r.bytes)
          THEN Leave(p, "File too large. Max 500MB.")
          ELSE /\ pc' = [pc EXCEPT ![p] = "save_file"]
               /\ UNCHANGED <<response, base, ext, counter, thumb_name, videos, loaded>>
    /\ UNCHANGED <<store, uploads, thumbs, now, serial, begun, op, filename, deleted_video, page, writes>>

\* line 137: file.save(filepath)
UploadSaveFile(p) ==
    /\ pc[p] = "save_file"
    /\ uploads' = uploads \cup {filename[p]}
    /\ pc' = [pc EXCEPT ![p] = "thumb"]
    /\ UNCHANGED <<store, thumbs, now, serial, begun, op, filename, base, ext, counter,
                   thumb_name, videos, deleted_video, loaded, response, page, writes>>

\* lines 147-151 with generate_thumbnail (47-55): the first frame is written
\* when the file can be read and decoded
UploadThumb(p) ==
    /\ pc[p] = "thumb"
    /\ \E r \in RequestsOf(base[p], ext[p]) :
          IF r.decodable /\ filename[p] \in uploads
          THEN /\ thumbs' = thumbs \cup {ThumbNameOf(filename[p])}
               /\ thumb_name' = [thumb_name EXCEPT ![p] = ThumbNameOf(filename[p])]
          ELSE /\ thumb_name' = [thumb_name EXCEPT ![p] = DefaultThumb]
               /\ UNCHANGED thumbs
    /\ pc' = [pc EXCEPT ![p] = "append"]
    /\ UNCHANGED <<store, uploads, now, serial, begun, op, filename, base, ext, counter,
                   videos, deleted_video, loaded, response, page, writes>>

\* lines 139-144, 153-163: load_videos and the append to the local list
UploadAppend(p) ==
    /\ pc[p] = "append"
    /\ \E r \in RequestsOf(base[p], ext[p]) :
          videos' = [videos EXCEPT ![p] =
                        Append(store, NewRecord(filename[p], r, thumb_name[p], Clock))]
    /\ now' = Clock
    /\ loaded' = [loaded EXCEPT ![p] = store]
    /\ pc' = [pc EXCEPT ![p] = "save"]
    /\ UNCHANGED <<store, uploads, thumbs, serial, begun, op, filename, base, ext, counter,
                   thumb_name, deleted_video, response, page, writes>>

\* lines 165-167: save_videos and the redirect
UploadSave(p) ==
    /\ pc[p] = "save" /\ op[p] = "upload"
    /\ store' = videos[p]
    /\ writes' = LogWrite(p, "upload")
    /\ Leave(p, "redirect")
    /\ UNCHANGED <<uploads, thumbs, now, serial, begun, op, filename, deleted_video, page>>

\* --------------------------------------------------------- heart (174-184)
\* lines 176-181: load_videos and the loop over the local list
HeartLoad(p) ==
    /\ \E f \in Targets : Enter(p, "heart", f, Increment(store, f, "hearts"), <<>>, store)
    /\ base' = [base EXCEPT ![p] = <<>>]
    /\ ext' = [ext EXCEPT ![p] = <<>>]
    /\ counter' = [counter EXCEPT ![p] = 0]
    /\ response' = [response EXCEPT ![p] = ""]
    /\ page' = [page EXCEPT ![p] = NoPage]
    /\ pc' = [pc EXCEPT ![p] = "save"]
    /\ UNCHANGED <<store, uploads, thumbs, now, serial, writes>>

\* variant: the save loads the file again and raises the counter it finds
HeartSaveMerged(p) ==
    /\ pc[p] = "save" /\ op[p] = "heart"
    /\ store' = Increment(store, filename[p], "hearts")
    /\ writes' = LogWrite(p, "heart")
    /\ Leave(p, "redirect")
    /\ UNCHANGED <<uploads, thumbs, now, serial, begun, op, filename, deleted_video, page>>

\* lines 183-184: save_videos and the redirect
HeartSave(p) ==
    /\ pc[p] = "save" /\ op[p] = "heart"
    /\ store' = videos[p]
    /\ writes' = LogWrite(p, "heart")
    /\ Leave(p, "redirect")
    /\ UNCHANGED <<uploads, thumbs, now, serial, begun, op, filename, deleted_video, page>>

\* ---------------------------------------------------------- view (187-197)
\* lines 189-194: load_videos and the loop over the local list
ViewLoad(p) ==
    /\ \E f \in Targets : Enter(p, "view", f, Increment(store, f, "views"), <<>>, store)
    /\ base' = [base EXCEPT ![p] = <<>>]
    /\ ext' = [ext EXCEPT ![p] = <<>>]
    /\ counter' = [counter EXCEPT ![p] = 0]
    /\ response' = [response EXCEPT ![p] = ""]
    /\ page' = [page EXCEPT ![p] = NoPage]
    /\ pc' = [pc EXCEPT ![p] = "save"]
    /\ UNCHANGED <<store, uploads, thumbs, now, serial, writes>>

\* lines 196-197: save_videos and the empty 204 response
ViewSave(p) ==
    /\ pc[p] = "save" /\ op[p] = "view"
    /\ store' = videos[p]
    /\ writes' = LogWrite(p, "view")
    /\ Leave(p, "204")
    /\ UNCHANGED <<uploads, thumbs, now, serial, begun, op, filename, deleted_video, page>>

\* -------------------------------------------------------- delete (200-226)
\* lines 202-211: load_videos and the partition of the local list
DeleteLoad(p) ==
    /\ \E f \in Targets :
          Enter(p, "delete", f, NewList(store, f), DeletedVideo(store, f), store)
    /\ base' = [base EXCEPT ![p] = <<>>]
    /\ ext' = [ext EXCEPT ![p] = <<>>]
    /\ counter' = [counter EXCEPT ![p] = 0]
    /\ response' = [response EXCEPT ![p] = ""]
    /\ page' = [page EXCEPT ![p] = NoPage]
    /\ pc' = [pc EXCEPT ![p] = "save"]
    /\ UNCHANGED <<store, uploads, thumbs, now, serial, writes>>

\* line 213: save_videos(new_list)
DeleteSave(p) ==
    /\ pc[p] = "save" /\ op[p] = "delete"
    /\ store' = videos[p]
    /\ writes' = LogWrite(p, "delete")
    /\ pc' = [pc EXCEPT ![p] = "video_exists"]
    /\ UNCHANGED <<uploads, thumbs, now, serial, begun, op, filename, base, ext, counter,
                   thumb_name, videos, deleted_video, loaded, response, page>>

\* line 217: os.path.exists(video_path)
DeleteVideoExists(p) ==
    /\ pc[p] = "video_exists"
    /\ pc' = [pc EXCEPT ![p] = IF filename[p] \in uploads THEN "video_remove" ELSE "thumb_exists"]
    /\ UNCHANGED <<store, uploads, thumbs, now, serial, begun, op, filename, base, ext,
                   counter, thumb_name, videos, deleted_video, loaded, response, page, writes>>

\* line 218: os.remove(video_path), FileNotFoundError when the file is gone
DeleteVideoRemove(p) ==
    /\ pc[p] = "video_remove"
    /\ IF filename[p] \in uploads
       THEN /\ uploads' = uploads \ {filename[p]}
            /\ pc' = [pc EXCEPT ![p] = "thumb_exists"]
            /\ UNCHANGED <<response, base, ext, counter, thumb_name, videos, loaded>>
       ELSE /\ Leave(p, "500")
            /\ UNCHANGED uploads
    /\ UNCHANGED <<store, thumbs, now, serial, begun, op, filename, deleted_video, page, writes>>

\* variant: the thumbnail is never removed
DeleteThumbKeep(p) ==
    /\ pc[p] = "thumb_exists"
    /\ Leave(p, "redirect")
    /\ UNCHANGED <<store, uploads, thumbs, now, serial, begun, op, filename, deleted_video, page, writes>>

\* lines 221-223, 226: the tests that guard the removal of the thumbnail
DeleteThumbExists(p) ==
    /\ pc[p] = "thumb_exists"
    /\ IF /\ deleted_video[p] # <<>>
          /\ deleted_video[p][1].thumbnail \in thumbs
          /\ deleted_video[p][1].thumbnail # DefaultThumb
       THEN /\ pc' = [pc EXCEPT ![p] = "thumb_remove"]
            /\ UNCHANGED <<response, base, ext, counter, thumb_name, videos, loaded>>
       ELSE Leave(p, "redirect")
    /\ UNCHANGED <<store, uploads, thumbs, now, serial, begun, op, filename, deleted_video, page, writes>>

\* lines 224, 226: os.remove(thumb_path), FileNotFoundError when the file is gone
DeleteThumbRemove(p) ==
    /\ pc[p] = "thumb_remove"
    /\ IF deleted_video[p][1].thumbnail \in thumbs
       THEN /\ thumbs' = thumbs \ {deleted_video[p][1].thumbnail}
            /\ Leave(p, "redirect")
       ELSE /\ Leave(p, "500")
            /\ UNCHANGED thumbs
    /\ UNCHANGED <<store, uploads, now, serial, begun, op, filename, deleted_video, page, writes>>

\* ------------------------------------------------------------------- Next
Next ==
    \E p \in Procs :
        \/ Index(p)
        \/ PlaylistPage(p)
        \/ UploadBegin(p)
        \/ UploadResolve(p)
        \/ UploadSize(p)
        \/ UploadSaveFile(p)
        \/ UploadThumb(p)
        \/ UploadAppend(p)
        \/ UploadSave(p)
        \/ HeartLoad(p)
        \/ HeartSave(p)
        \/ ViewLoad(p)
        \/ ViewSave(p)
        \/ DeleteLoad(p)
        \/ DeleteSave(p)
        \/ DeleteVideoExists(p)
        \/ DeleteVideoRemove(p)
        \/ DeleteThumbExists(p)
        \/ DeleteThumbRemove(p)

\* both kinds of server
Spec == Init /\ [][Next]_vars

\* one request at a time: each runs to completion before the next begins
SpecSerial == InitSerial /\ [][Next]_vars

\* requests on concurrent worker threads
SpecThreaded == InitThreaded /\ [][Next]_vars

\* ================================================================ claims
ClipMp4 == <<"clip", ".mp4">>

Clip1Mp4 == <<"clip", "_1", ".mp4">>

Clip2Mp4 == <<"clip", "_2", ".mp4">>

AllFree == \A p \in Procs : Free(p)

\* hearts of the first record with this filename
HeartsOf(vs, f) == vs[FirstMatch(vs, f)].hearts

\* ---------------------------------------------------------------------- C1
\* C1: when each request runs to completion before the next begins, no two
\* records of the store have the same filename, whatever uploads, hearts,
\* views and deletes came before.
C1_FilenamesDistinct ==
    \A i, j \in DOMAIN store : store[i].filename = store[j].filename => i = j

\* the same name was uploaded again and again, and the records differ
C1_Witness ==
    /\ AllFree
    /\ Len(store) = 3
    /\ {ClipMp4, Clip1Mp4} \subseteq NamesInStore(store)

\* ---------------------------------------------------------------------- C2
\* C2: in every state that uploads and deletes reach, the thumbnail field of
\* every record is "default.jpg" or names a file of the thumbnail directory.
C2_ThumbnailOnDisk ==
    \A i \in DOMAIN store :
        store[i].thumbnail = DefaultThumb \/ store[i].thumbnail \in thumbs

\* ---------------------------------------------------------------------- C3
\* C3: the steps of an upload up to and including its rejection (the
\* allow-list test, the collision loop, the size test) leave the store, the
\* upload directory and the thumbnail directory as they were.
C3_RejectedUploadChangesNothing ==
    [][\A p \in Procs :
          (UploadBegin(p) \/ UploadResolve(p) \/ UploadSize(p)) => UNCHANGED shared]_vars

\* an upload was rejected for its size while the gallery held a video
C3_Witness ==
    \E p \in Procs :
        /\ op[p] = "upload" /\ pc[p] = "done"
        /\ response[p] = "File too large. Max 500MB."
        /\ store # <<>> /\ uploads # {} /\ thumbs # {}

\* ---------------------------------------------------------------------- C4
\* some listing of index or playlist_page shows a record with this filename
Listed(vs, f) ==
    \/ \E q \in Queries :
          LET pg == RenderIndex(vs, q[1], q[2])
          IN  \E i \in DOMAIN pg.videos : pg.videos[i].filename = f
    \/ \E n \in PlaylistNames :
          LET pg == RenderPlaylist(vs, n)
          IN  \E i \in DOMAIN pg.videos : pg.videos[i].filename = f

\* C4: once a delete of f has returned (one request at a time), no listing
\* shows f, the upload directory holds no file f, and the thumbnail of the
\* deleted record, unless it is the default one, is gone from the thumbnail
\* directory.
C4_DeleteRemovesEverything ==
    \A p \in Procs :
        (op[p] = "delete" /\ pc[p] = "done") =>
            /\ ~Listed(store, filename[p])
            /\ filename[p] \notin uploads
            /\ (deleted_video[p] # <<>> /\ deleted_video[p][1].thumbnail # DefaultThumb)
                  => deleted_video[p][1].thumbnail \notin thumbs

\* a video with a thumbnail of its own was deleted while another one stays
C4_Witness ==
    \E p \in Procs :
        /\ op[p] = "delete" /\ pc[p] = "done" /\ response[p] = "redirect"
        /\ deleted_video[p] # <<>>
        /\ deleted_video[p][1].thumbnail # DefaultThumb
        /\ store # <<>>

\* ---------------------------------------------------------------------- C9
\* base + ext, base_1 + ext, base_2 + ext, ...
Candidate(b, e, n) ==
    IF n = 0 THEN b \o e
    ELSE b \o << <<"_1", "_2", "_3", "_4", "_5", "_6", "_7", "_8">>[n] >> \o e

\* the first candidate that names no file of the upload directory
FirstFreeName(b, e) ==
    Candidate(b, e, CHOOSE n \in 0..8 :
                        /\ Candidate(b, e, n) \notin uploads
                        /\ \A m \in 0..(n - 1) : Candidate(b, e, m) \in uploads)

\* C9: with one request at a time, the name an upload leaves the collision
\* loop with is the first of base+ext, base_1+ext, base_2+ext, ... that names
\* no file of the upload directory; the file is saved and the record stored
\* under that name.
C9_FirstFreeName ==
    \A p \in Procs :
        op[p] = "upload" =>
            /\ pc[p] \in {"size", "save_file"}
                  => filename[p] = FirstFreeName(base[p], ext[p])
            /\ pc[p] \in {"thumb", "append", "save"} => filename[p] \in uploads
            /\ pc[p] = "save" => Last(videos[p]).filename = filename[p]

\* clip.mp4 was uploaded three times
C9_Witness ==
    /\ AllFree
    /\ [i \in DOMAIN store |-> store[i].filename] = <<ClipMp4, Clip1Mp4, Clip2Mp4>>

\* ---------------------------------------------------------------------- C5
\* worker p writes the file
Saves(p) == UploadSave(p) \/ HeartSave(p) \/ ViewSave(p) \/ DeleteSave(p)

\* a record is the one an upload appended: its filename and its timestamp
SameRecord(v, w) == v.filename = w.filename /\ v.uploaded_at = w.uploaded_at

\* no record that stays in the store has a lower counter after the step
NoCounterDecreases ==
    \A i \in DOMAIN store, j \in DOMAIN store' :
        SameRecord(store[i], store'[j]) =>
            /\ store'[j].hearts >= store[i].hearts
            /\ store'[j].views >= store[i].views

\* C5: under any interleaving of requests, no step lowers the hearts or the
\* views of a record that stays in the store.
C5_CountersNeverDecrease == [][NoCounterDecreases]_vars

\* C5, amended: the only step that lowers the hearts or the views of a record
\* that stays in the store is a save by a request that loaded the file before
\* another request's save changed it.  A request that saves over the list it
\* loaded, as every request does when one runs at a time, lowers no counter.
C5_CountersNeverDecreaseUnraced ==
    [][NoCounterDecreases \/ \E p \in Procs : Saves(p) /\ loaded[p] # store]_vars

\* a video was hearted and viewed, and both counts are in the store
C5_Witness ==
    /\ AllFree
    /\ \E i \in DOMAIN store : store[i].hearts = 1 /\ store[i].views = 1

\* ---------------------------------------------------------------------- C6
\* C6: a lost update is reachable.  When a heart request for f saves and the
\* save before it was made by another heart request for f that had loaded the
\* same list, the store ends with hearts of f one above the loaded value, not
\* two: the two hearts count as one.
C6_LostUpdate ==
    [][\A p \in Procs :
          ( /\ HeartSave(p)
            /\ writes # <<>>
            /\ writes[1].filename = filename[p]
            /\ writes[1].loaded = loaded[p]
            /\ FirstMatch(loaded[p], filename[p]) # 0 )
          => HeartsOf(store', filename[p]) = HeartsOf(loaded[p], filename[p]) + 1]_vars

\* one upload and two hearts of clip.mp4 have all returned; the later save
\* replaced a file that no longer held what its request had loaded, and the
\* record has one heart
C6_Witness ==
    /\ begun = 3
    /\ \A p \in Procs : op[p] = "heart" /\ pc[p] = "done" /\ filename[p] = ClipMp4
    /\ writes # <<>>
    /\ writes[1].stale
    /\ FirstMatch(writes[1].loaded, ClipMp4) # 0
    /\ Len(store) = 1
    /\ HeartsOf(store, ClipMp4) = 1

\* ---------------------------------------------------------------------- C7
\* the list with two more hearts on the first record named f
PlusTwoHearts(vs, f) ==
    [i \in DOMAIN vs |->
        IF i = FirstMatch(vs, f)
        THEN [k \in DOMAIN vs[i] |-> IF k = "hearts" THEN vs[i][k] + 2 ELSE vs[i][k]]
        ELSE vs[i]]

\* C7: with one request at a time, when a heart of f saves and the save before
\* it was a heart of f too, the store is the list the first of the two loaded
\* with hearts of f raised by exactly 2 and nothing else changed.
C7_TwoHeartsAddTwo ==
    [][\A p \in Procs :
          ( /\ HeartSave(p)
            /\ writes # <<>>
            /\ writes[1].filename = filename[p]
            /\ FirstMatch(writes[1].loaded, filename[p]) # 0 )
          => store' = PlusTwoHearts(writes[1].loaded, filename[p])]_vars

\* two videos, one of them hearted twice in a row
C7_Witness ==
    \E p \in Procs :
        /\ op[p] = "heart" /\ pc[p] = "done"
        /\ writes # <<>>
        /\ writes[1].filename = filename[p]
        /\ Len(store) = 2
        /\ FirstMatch(store, filename[p]) # 0
        /\ HeartsOf(store, filename[p]) = 2
        /\ HeartsOf(writes[1].loaded, filename[p]) = 1

\* ---------------------------------------------------------------------- C8
\* a step of heart, view or delete after its load
StepsAfterLoad(p) ==
    \/ HeartSave(p) \/ ViewSave(p) \/ DeleteSave(p)
    \/ DeleteVideoExists(p) \/ DeleteVideoRemove(p)
    \/ DeleteThumbExists(p) \/ DeleteThumbRemove(p)

\* C8: a heart, view or delete whose filename matched no record of the list it
\* loaded is a no-op, also when its steps interleave with those of uploads and
\* deletes: it saves the list it loaded, and no file leaves the upload
\* directory or the thumbnail directory.
C8_UnknownFilenameIsNoOp ==
    [][\A p \in Procs :
          ( /\ op[p] \in {"heart", "view", "delete"}
            /\ StepsAfterLoad(p)
            /\ FirstMatch(loaded[p], filename[p]) = 0 )
          => /\ Saves(p) => store' = loaded[p]
             /\ UNCHANGED <<uploads, thumbs>>]_vars

\* --------------------------------------------------------------------- C10
\* a record of a listing without the field the listing added
Undated(v) == [k \in DOMAIN v \ {"pretty_date"} |-> v[k]]

\* the records of the store that pass the search filter, in store order
Selected(vs, search) == SelectSeq(vs, LAMBDA v : search = <<>> \/ Matches(v, search))

Ascending(s) == \A i, j \in DOMAIN s : i < j => s[i].uploaded_at <= s[j].uploaded_at

\* C10: a listing never changes the store.  With sort=oldest the listing holds
\* the filtered records in ascending uploaded_at order, whatever was listed
\* before; with a sort value that is none of newest, oldest, views, hearts it
\* holds them in store order.
C10_ListingsReadOnly ==
    [][\A p \in Procs :
          (Index(p) \/ PlaylistPage(p)) =>
              /\ store' = store
              /\ Index(p) =>
                    LET pg    == page'[p]
                        shown == Selected(store, pg.search)
                        got   == [i \in DOMAIN pg.videos |-> Undated(pg.videos[i])]
                    IN  /\ pg.sort = "oldest" =>
                              /\ Ascending(got)
                              /\ Len(got) = Len(shown)
                              /\ { got[i] : i \in DOMAIN got } = { shown[i] : i \in DOMAIN shown }
                        /\ pg.sort \notin {"newest", "oldest", "views", "hearts"} =>
                              got = shown]_vars

\* two videos, the later one with more views, listed oldest first
C10_Witness ==
    \E p \in Procs :
        /\ op[p] = "index" /\ pc[p] = "done"
        /\ page[p].sort = "oldest"
        /\ Len(page[p].videos) = 2
        /\ Len(store) = 2
        /\ store[1].views < store[2].views

====
